---- MODULE Spec2Model ----
(***************************************************************************)
(* Model of causeofwhy/answer_engine.py: AnswerEngine.__init__,            *)
(* _analyze_query, _analyze_pages, _extract_answers, get_answers and the   *)
(* Answer record.  The IR index, the Page class and regularize/tokenize    *)
(* live in indexer.py; the tagger and the lexical knowledge base are NLTK. *)
(* Numbers that are floats in the code (similarity scores, the LCH         *)
(* threshold) are kept in hundredths, so 2.16 is 216.                      *)
(***************************************************************************)
EXTENDS Integers, Sequences, FiniteSets, TLC

\* ------------------------------------------------------------- bounds
MaxRanked == 3
MaxStart == 2
MaxNumTop == 3
MaxCalls == 2

\* default of the lch argument, 2.16
LchDefault == 216

\* ------------------------------------------------------------ helpers
Min(a, b) == IF a < b THEN a ELSE b
Max(a, b) == IF a > b THEN a ELSE b

Range(s) == {s[i] : i \in 1..Len(s)}

RECURSIVE Concat(_)
\* flattening of a sequence of sequences
Concat(ss) == IF ss = <<>> THEN <<>> ELSE Head(ss) \o Concat(Tail(ss))

RECURSIVE Filter(_, _)
\* the elements of s that are in the set keep, in order
Filter(s, keep) ==
    IF s = <<>> THEN <<>>
    ELSE (IF Head(s) \in keep THEN <<Head(s)>> ELSE <<>>) \o Filter(Tail(s), keep)

\* Python's None / a set attribute, as a sequence of length 0 / 1
None == <<>>
Some(v) == <<v>>

\* -------------------------------------------------- strings and tokens
\* A string is the sequence of its tokens and of the blanks between them.
RECURSIVE Join(_)
\* ' '.join(tokens)
Join(toks) ==
    IF toks = <<>> THEN <<>>
    ELSE IF Len(toks) = 1 THEN toks
    ELSE <<Head(toks), " ">> \o Join(Tail(toks))

RECURSIVE Tokenize(_)
\* indexer.tokenizer.tokenize: the tokens of a string, blanks dropped
Tokenize(str) ==
    IF str = <<>> THEN <<>>
    ELSE (IF Head(str) = " " THEN <<>> ELSE <<Head(str)>>) \o Tokenize(Tail(str))

\* case folding of one token
Lower(tok) ==
    CASE tok = "The" -> "the"
      [] tok = "War" -> "war"
      [] OTHER -> tok

StopList == {"the", "."}

RECURSIVE regularize(_)
\* indexer.regularize: case folding, then stop words and punctuation removed
regularize(toks) ==
    IF toks = <<>> THEN <<>>
    ELSE (IF Lower(Head(toks)) \in StopList THEN <<>> ELSE <<Lower(Head(toks))>>)
         \o regularize(Tail(toks))

\* ------------------------------------------------- lexical knowledge base
NOUN == "n"
VERB == "v"
ADJ == "a"
ADV == "r"

Sense(w, p) == [lemma |-> w, pos |-> p]

\* wordnet.synsets(word): every sense of the word, all parts of speech
synsets(word) ==
    CASE word = "war" -> <<Sense("war", NOUN)>>
      [] word = "start" -> <<Sense("start", NOUN), Sense("start", VERB)>>
      [] word = "dispute" -> <<Sense("dispute", NOUN), Sense("dispute", VERB)>>
      [] word = "cake" -> <<Sense("cake", NOUN)>>
      [] word = "red" -> <<Sense("red", ADJ), Sense("red", NOUN)>>
      [] word = "begin" -> <<Sense("begin", VERB)>>
      [] word = "hot" -> <<Sense("hot", ADJ), Sense("hot", NOUN)>>
      [] word = "cause" -> <<Sense("cause", NOUN), Sense("cause", VERB)>>
      [] OTHER -> <<>>

AllSenses == UNION {Range(synsets(w)) :
                      w \in {"war", "start", "dispute", "cake", "red", "begin", "hot", "cause"}}

\* wordnet.synsets(word, pos=pos): the senses of that part of speech
synsets_pos(word, pos) == Filter(synsets(word), {s \in AllSenses : s.pos = pos})

\* wordnet.synset('cause.v.01')
cause_v_01 == Sense("cause", VERB)

\* outcomes of Synset.lch_similarity: a score, None, or WordNetError raised
Score(x) == [kind |-> "score", val |-> x]
NoPath == [kind |-> "none", val |-> 0]
WordNetError == [kind |-> "raise", val |-> 0]

PairScore(a, b) ==
    LET l == {a.lemma, b.lemma} IN
    CASE a = b -> 364
      [] l = {"start", "begin"} /\ a.pos = VERB -> 256
      [] l = {"cause", "dispute"} /\ a.pos = VERB -> 220
      [] l = {"cause", "begin"} /\ a.pos = VERB -> 216
      [] l = {"cause", "start"} /\ a.pos = VERB -> 180
      [] l = {"war", "dispute"} /\ a.pos = NOUN -> 230
      [] OTHER -> 100

\* net1.lch_similarity(net2): senses of different parts of speech are not
\* comparable (WordNetError); a part of speech without a hierarchy (depth 0,
\* the adjectives) gives None
lch_similarity(net1, net2) ==
    IF net1.pos # net2.pos THEN WordNetError
    ELSE IF net1.pos \in {ADJ, ADV} THEN NoPath
    ELSE Score(PairScore(net1, net2))

\* ------------------------------------------------------ documents (Page)
DocIds == {"d1", "d2", "d3", "d4"}

\* raw text of the stored documents: tokens, markup "<b>", sentence ends "."
RawText(id) ==
    CASE id = "d1" -> <<"The", "War", "start", "<b>", "dispute", ".", "cake", "red", ".">>
      [] id = "d2" -> <<"war", "cause", "begin", ".", "The", "cake", ".",
                        "War", "begin", ".">>
      [] id = "d3" -> <<"<b>", "The", ".", "red", "war", "cause", ".", "red", "start">>
      [] OTHER -> <<"<b>">>

Markup == {"<b>"}

\* a Page as the index hands it out: no score yet, not analysed
Page(id) == [id |-> id, cosine_sim |-> None, text |-> RawText(id), sentences |-> <<>>]

\* Page.preprocess(): text clean-up (markup removed); idempotent
preprocess(page) ==
    [page EXCEPT !.text = Filter(page.text, Range(page.text) \ Markup)]

RECURSIVE Split(_, _)
\* the sentences of a text: maximal non-empty runs of tokens between "."
Split(text, cur) ==
    IF text = <<>> THEN (IF cur = <<>> THEN <<>> ELSE <<cur>>)
    ELSE IF Head(text) = "."
         THEN (IF cur = <<>> THEN <<>> ELSE <<cur>>) \o Split(Tail(text), <<>>)
         ELSE Split(Tail(text), Append(cur, Head(text)))

\* Page.tokenize_sentences(): (re)populates the sentence list from the text
tokenize_sentences(page) == [page EXCEPT !.sentences = Split(page.text, <<>>)]

\* ------------------------------------------------------------ the index
\* similarity score of the i-th ranked document (strictly descending)
ScoreAt(i) == 100 - 10 * i

\* the ranked lists index.ranked() can return: (id, score) pairs, best first
RankedLists ==
    {r \in UNION {[1..n -> DocIds] : n \in 0..MaxRanked} :
        \A i, j \in 1..Len(r) : i # j => r[i] # r[j]}

WithScores(r) == [i \in 1..Len(r) |-> <<r[i], ScoreAt(i)>>]

\* index.get_page(ids): the documents, in the order of the identifiers
get_page(ids) == [i \in 1..Len(ids) |-> Page(ids[i])]

\* ------------------------------------------------------- Python slicing
\* a slice bound clamped the way list slicing clamps it
SliceBound(i, n) == IF i < 0 THEN Max(i + n, 0) ELSE Min(i, n)

\* s[a:a+b]: the second bound taken as a width
Slice_width(s, a, b) ==
    SubSeq(s, SliceBound(a, Len(s)) + 1, SliceBound(a + b, Len(s)))

\* s[a:b]
Slice(s, a, b) == SubSeq(s, SliceBound(a, Len(s)) + 1, SliceBound(b, Len(s)))

\* zip(*page_sim): the two columns of a list of pairs
Unzip(pairs) == << [i \in 1..Len(pairs) |-> pairs[i][1]],
                   [i \in 1..Len(pairs) |-> pairs[i][2]] >>

\* every page given the score of the first one
AttachSimilarity_first(pgs, similarity) ==
    [i \in 1..Len(pgs) |-> [pgs[i] EXCEPT !.cosine_sim = Some(similarity[1])]]

\* for page, sim in zip(self.pages, similarity): page.cosine_sim = sim
\* (zip stops at the shorter list; pages beyond it keep their score)
AttachSimilarity(pgs, similarity) ==
    [i \in 1..Len(pgs) |->
        IF i <= Len(similarity)
        THEN [pgs[i] EXCEPT !.cosine_sim = Some(similarity[i])]
        ELSE pgs[i]]

\* --------------------------------------------------------------- tagger
\* tagger labels, as character sequences
TagNN == <<"N", "N">>
TagVB == <<"V", "B">>
TagJJ == <<"J", "J">>
TagRB == <<"R", "B">>
TagIN == <<"I", "N">>
Labels == {TagNN, TagVB, TagJJ, TagRB, TagIN}

\* two deterministic taggers (nltk.pos_tag is a black box to the engine)
Taggers == {"lexical", "flat"}

TagOf(tagger, word) ==
    IF tagger = "flat" THEN (IF word = "red" THEN TagRB ELSE TagIN)
    ELSE CASE word \in {"war", "cake", "dispute"} -> TagNN
           [] word \in {"start", "begin", "cause"} -> TagVB
           [] word \in {"red", "hot"} -> TagJJ
           [] OTHER -> TagIN

\* nltk.pos_tag(tokens): one (word, label) pair per token, in order
pos_tag(tagger, toks) == [i \in 1..Len(toks) |-> <<toks[i], TagOf(tagger, toks[i])>>]

\* ------------------------------------------------------- _analyze_query
\* Python objects used as dictionary keys
PyBool(b) == [type |-> "bool", b |-> b, s |-> <<>>]
PyStr(s) == [type |-> "str", b |-> FALSE, s |-> s]

\* pos.startswith(c)
startswith(pos, c) == Len(pos) >= 1 /\ pos[1] = c

\* the dictionary display of lines 93-98, as the list of its key/value items
PosItems(pos) ==
    << <<PyBool(startswith(pos, "N")), NOUN>>,
       <<PyBool(startswith(pos, "V")), VERB>>,
       <<PyBool(startswith(pos, "J")), ADJ>>,
       <<PyBool(startswith(pos, "R")), ADV>> >>

\* dict(items).get(key, None): a later item overwrites an earlier one
DictGet(items, key) ==
    LET hits == {i \in 1..Len(items) : items[i][1] = key} IN
    IF hits = {} THEN None
    ELSE Some(items[CHOOSE i \in hits : \A j \in hits : j <= i][2])

\* {...}.get(pos, None): the dictionary is looked up with the label itself
PosCategory(pos) == DictGet(PosItems(pos), PyStr(pos))

\* lines 99-103: the senses stored for one tagged word
TermSynsets(word, pos) ==
    LET cat == PosCategory(pos) IN
    IF cat # None THEN synsets_pos(word, cat[1]) ELSE synsets(word)

\* the hidden term looked up like any other word instead of pinned
analyze_query_unpinned(tagger, ir_q) ==
    LET tagged == pos_tag(tagger, ir_q) IN
    [i \in 1..Len(tagged) |-> <<tagged[i][1], TermSynsets(tagged[i][1], tagged[i][2])>>]
    \o << <<"cause", synsets("cause")>> >>

\* lines 90-106: the tagged query built from the regularized query
analyze_query(tagger, ir_q) ==
    LET tagged == pos_tag(tagger, ir_q) IN
    [i \in 1..Len(tagged) |-> <<tagged[i][1], TermSynsets(tagged[i][1], tagged[i][2])>>]
    \o << <<"cause", <<cause_v_01>> >> >>

\* ------------------------------------------------------ sentence_matches
\* the comparison written lch > self.lch
py_ge_strict(r, th) == IF r.kind = "none" THEN FALSE ELSE r.val > th

\* lch >= self.lch for what lch_similarity returned.  The comparison is
\* outside the try block; CPython 2 orders None below every number.
py_ge(r, th) == IF r.kind = "none" THEN FALSE ELSE r.val >= th

\* one sense pair without the try block: the exception leaves related()
PairOutcome_notry(net1, net2, th) ==
    LET r == lch_similarity(net1, net2) IN
    IF r.kind = "raise" THEN "raise"
    ELSE IF py_ge(r, th) THEN "true" ELSE "next"

\* lines 125-131, one sense pair: "continue" (the except clause), "true"
\* (return True), "next" (fall through to the next pair), "raise"
PairOutcome(net1, net2, th) ==
    LET r == lch_similarity(net1, net2) IN
    IF r.kind = "raise" THEN "continue"
    ELSE IF py_ge(r, th) THEN "true" ELSE "next"

\* the pairs in the order the two nested loops of related() visit them
SensePairs(syn, word2) ==
    Concat([i \in 1..Len(syn) |->
              [j \in 1..Len(synsets(word2)) |-> <<syn[i], synsets(word2)[j]>>]])

RECURSIVE ScanPairs(_, _)
\* the loop body of related() over the remaining pairs
ScanPairs(pairs, th) ==
    IF pairs = <<>> THEN "False"
    ELSE LET o == PairOutcome(Head(pairs)[1], Head(pairs)[2], th) IN
         CASE o = "true" -> "True"
           [] o = "raise" -> "Raise"
           [] OTHER -> ScanPairs(Tail(pairs), th)

\* related(synsets, word2): "True", "False", or "Raise" for an exception
related(syn, word2, th) == ScanPairs(SensePairs(syn, word2), th)

RECURSIVE TermMatch(_, _, _, _)
\* lines 135-139: the inner loop over the regularized tokens of the sentence
TermMatch(term, syn, toks, th) ==
    IF toks = <<>> THEN "False"
    ELSE IF term = Head(toks) THEN "True"
    ELSE LET r == related(syn, Head(toks), th) IN
         IF r = "False" THEN TermMatch(term, syn, Tail(toks), th) ELSE r

RECURSIVE AllTerms(_, _, _)
\* lines 134-142: the outer loop over the tagged query
AllTerms(tagged, toks, th) ==
    IF tagged = <<>> THEN "True"
    ELSE LET m == TermMatch(Head(tagged)[1], Head(tagged)[2], toks, th) IN
         IF m = "True" THEN AllTerms(Tail(tagged), toks, th) ELSE m

\* sentence_matches(sentence)
sentence_matches(sentence, tagged, th) == AllTerms(tagged, regularize(sentence), th)

\* Answer(page, text); the page is referred to by its identifier
Answer(page, text) == [page |-> page.id, text |-> text]

\* ----------------------------------------------------------------- state
VARIABLES
    pc,               \* position: "new", "failed", "ready", the stages, "done"
    query, start, num_top, lch,    \* the constructor's arguments
    index_ranked,     \* what index.ranked() answers for this query
    tagger,           \* which tagger nltk.pos_tag is
    ir_query, ir_query_tagged, num_pages, pages, answers,   \* attributes
    loc_answers, page_windows, pi, si, phase,   \* locals and loop positions
    error,            \* the exception that ended the constructor or a call
    calls,            \* get_answers() calls started
    get_page_calls, ranked_calls,   \* calls made to the index
    returned,         \* the lists get_answers() returned, oldest first
    log               \* the steps of the current get_answers() call

vars == <<pc, query, start, num_top, lch, index_ranked, tagger, ir_query,
          ir_query_tagged, num_pages, pages, answers, loc_answers, page_windows,
          pi, si, phase, error, calls, get_page_calls, ranked_calls, returned, log>>

args == <<query, start, num_top, lch, index_ranked, tagger>>
attrs == <<ir_query, ir_query_tagged, num_pages, pages, answers>>
locals == <<loc_answers, page_windows, pi, si, phase>>
index_calls == <<get_page_calls, ranked_calls>>

Queries == { <<>>, Join(<<"The", "War">>), Join(<<"war", "start">>),
             Join(<<"hot", "cake">>) }

LchValues == {100, LchDefault, 400}

Event(e, p, s, hit) == [ev |-> e, p |-> p, s |-> s, hit |-> hit]

Init ==
    /\ pc = "new"
    /\ query \in Queries
    /\ start \in 0..MaxStart
    /\ num_top \in 0..MaxNumTop
    /\ lch \in LchValues
    /\ index_ranked \in {WithScores(r) : r \in RankedLists}
    /\ tagger \in Taggers
    /\ ir_query = <<>>
    /\ ir_query_tagged = None
    /\ num_pages = 0
    /\ pages = <<>>
    /\ answers = None
    /\ loc_answers = <<>>
    /\ page_windows = <<>>
    /\ pi = 1
    /\ si = 1
    /\ phase = "pre"
    /\ error = "none"
    /\ calls = 0
    /\ get_page_calls = 0
    /\ ranked_calls = 0
    /\ returned = <<>>
    /\ log = <<>>

\* ------------------------------------------------------------- __init__
\* lines 64-81 when the slice holds at least one (id, score) pair
ConstructOk ==
    /\ pc = "new"
    /\ LET page_sim == Slice(index_ranked, start, num_top)
           cols == Unzip(page_sim)
       IN /\ page_sim # <<>>
          /\ pages' = AttachSimilarity(get_page(cols[1]), cols[2])
    /\ ir_query' = regularize(Tokenize(query))
    /\ num_pages' = Len(index_ranked)
    /\ ranked_calls' = ranked_calls + 1
    /\ get_page_calls' = get_page_calls + 1
    /\ pc' = "ready"
    /\ UNCHANGED <<args, ir_query_tagged, answers, locals, error, calls, returned, log>>

\* lines 64-76 when the slice is empty: zip(*[]) yields nothing to unpack
\* into page_ids, similarity, and the assignment raises ValueError
ConstructFail ==
    /\ pc = "new"
    /\ Slice(index_ranked, start, num_top) = <<>>
    /\ ir_query' = regularize(Tokenize(query))
    /\ num_pages' = Len(index_ranked)
    /\ ranked_calls' = ranked_calls + 1
    /\ error' = "ValueError"
    /\ pc' = "failed"
    /\ UNCHANGED <<args, ir_query_tagged, pages, answers, locals, calls,
                   get_page_calls, returned, log>>

\* ---------------------------------------------------------- get_answers
\* entry of get_answers() on a constructed engine
Call ==
    /\ pc \in {"ready", "done"}
    /\ calls < MaxCalls
    /\ calls' = calls + 1
    /\ log' = <<>>
    /\ pc' = "analyze_query"
    /\ UNCHANGED <<args, attrs, locals, error, index_calls, returned>>

\* line 167: self._analyze_query()
AnalyzeQuery ==
    /\ pc = "analyze_query"
    /\ ir_query_tagged' = Some(analyze_query(tagger, ir_query))
    /\ log' = Append(log, Event("tag", 0, 0, FALSE))
    /\ pi' = 1
    /\ phase' = "pre"
    /\ pc' = "analyze_pages"
    /\ UNCHANGED <<args, ir_query, num_pages, pages, answers, loc_answers,
                   page_windows, si, error, calls, index_calls, returned>>

\* line 111: page.preprocess() for the page the loop is at
PagePreprocess ==
    /\ pc = "analyze_pages"
    /\ pi <= Len(pages)
    /\ phase = "pre"
    /\ pages' = [pages EXCEPT ![pi] = preprocess(pages[pi])]
    /\ log' = Append(log, Event("pre", pi, 0, FALSE))
    /\ phase' = "seg"
    /\ UNCHANGED <<pc, args, ir_query, ir_query_tagged, num_pages, answers,
                   loc_answers, page_windows, pi, si, error, calls, index_calls,
                   returned>>

\* line 112: page.tokenize_sentences() for the same page
PageTokenize ==
    /\ pc = "analyze_pages"
    /\ pi <= Len(pages)
    /\ phase = "seg"
    /\ pages' = [pages EXCEPT ![pi] = tokenize_sentences(pages[pi])]
    /\ log' = Append(log, Event("seg", pi, 0, FALSE))
    /\ phase' = "pre"
    /\ pi' = pi + 1
    /\ UNCHANGED <<pc, args, ir_query, ir_query_tagged, num_pages, answers,
                   loc_answers, page_windows, si, error, calls, index_calls,
                   returned>>

\* extraction that goes on from the list of the previous call
BeginExtract_keep ==
    /\ pc = "analyze_pages"
    /\ pi > Len(pages)
    /\ loc_answers' = (IF answers = None THEN <<>> ELSE answers[1])
    /\ page_windows' = <<>>
    /\ pi' = 1
    /\ si' = 1
    /\ pc' = "extract"
    /\ UNCHANGED <<args, attrs, phase, error, calls, index_calls, returned, log>>

\* extraction that starts as soon as the first page has been analysed
BeginExtract_early ==
    /\ pc = "analyze_pages"
    /\ pi > 1
    /\ phase = "pre"
    /\ loc_answers' = <<>>
    /\ page_windows' = <<>>
    /\ pi' = 1
    /\ si' = 1
    /\ pc' = "extract"
    /\ UNCHANGED <<args, attrs, phase, error, calls, index_calls, returned, log>>

\* line 169 / 144: _analyze_pages() is over, _extract_answers() starts
BeginExtract ==
    /\ pc = "analyze_pages"
    /\ pi > Len(pages)
    /\ loc_answers' = <<>>
    /\ page_windows' = <<>>
    /\ pi' = 1
    /\ si' = 1
    /\ pc' = "extract"
    /\ UNCHANGED <<args, attrs, phase, error, calls, index_calls, returned, log>>

\* lines 147-151: one sentence of the current page
MatchSentence ==
    /\ pc = "extract"
    /\ pi <= Len(pages)
    /\ si <= Len(pages[pi].sentences)
    /\ LET sentence == pages[pi].sentences[si]
           m == sentence_matches(sentence, ir_query_tagged[1], lch)
       IN IF m = "Raise"
          THEN /\ error' = "Exception"
               /\ pc' = "raised"
               /\ UNCHANGED <<page_windows, si, log>>
          ELSE /\ page_windows' =
                    IF m = "True"
                    THEN Append(page_windows, Answer(pages[pi], Join(sentence)))
                    ELSE page_windows
               /\ log' = Append(log, Event("match", pi, si, m = "True"))
               /\ si' = si + 1
               /\ UNCHANGED <<pc, error>>
    /\ UNCHANGED <<args, attrs, loc_answers, pi, phase, calls, index_calls, returned>>

\* the answers of a page put in front of the list
ExtendAnswers_prepend ==
    /\ pc = "extract"
    /\ pi <= Len(pages)
    /\ si > Len(pages[pi].sentences)
    /\ loc_answers' = page_windows \o loc_answers
    /\ page_windows' = <<>>
    /\ pi' = pi + 1
    /\ si' = 1
    /\ UNCHANGED <<pc, args, attrs, phase, error, calls, index_calls, returned, log>>

\* line 152: answers.extend(page_windows), then the next page
ExtendAnswers ==
    /\ pc = "extract"
    /\ pi <= Len(pages)
    /\ si > Len(pages[pi].sentences)
    /\ loc_answers' = loc_answers \o page_windows
    /\ page_windows' = <<>>
    /\ pi' = pi + 1
    /\ si' = 1
    /\ UNCHANGED <<pc, args, attrs, phase, error, calls, index_calls, returned, log>>

\* lines 153 and 170: self.answers = answers; return self.answers
Return ==
    /\ pc = "extract"
    /\ pi > Len(pages)
    /\ answers' = Some(loc_answers)
    /\ returned' = Append(returned, loc_answers)
    /\ pc' = "done"
    /\ UNCHANGED <<args, ir_query, ir_query_tagged, num_pages, pages, locals,
                   error, calls, index_calls, log>>

Next ==
    \/ ConstructOk
    \/ ConstructFail
    \/ Call
    \/ AnalyzeQuery
    \/ PagePreprocess
    \/ PageTokenize
    \/ BeginExtract
    \/ MatchSentence
    \/ ExtendAnswers
    \/ Return

Spec == Init /\ [][Next]_vars

\* ------------------------------------------------------------ properties
constructed == pc \notin {"new", "failed"}

\* the ranked indices (from 0) the window [start, num_top) covers
WindowIndices == {i \in 0..(Len(index_ranked) - 1) : start <= i /\ i < num_top}

\* a usable score at or above the threshold for some pair of senses
SomePairRelated(syn, tok, th) ==
    \E a \in Range(syn), b \in Range(synsets(tok)) :
        LET r == lch_similarity(a, b) IN r.kind = "score" /\ r.val >= th

\* a term is satisfied by a sentence: verbatim, or related through some pair
Satisfied(term, syn, sentence, th) ==
    \E tok \in Range(regularize(sentence)) :
        tok = term \/ SomePairRelated(syn, tok, th)

AllSatisfied(sentence) ==
    \A i \in 1..Len(ir_query_tagged[1]) :
        Satisfied(ir_query_tagged[1][i][1], ir_query_tagged[1][i][2], sentence, lch)

\* how many Answers of the list stand for the sentence s of page p
AnswersFor(p, s) ==
    Cardinality({k \in 1..Len(answers[1]) :
        answers[1][k] = [page |-> pages[p].id, text |-> Join(pages[p].sentences[s])]})

\* how many sentences of page p read the same as its sentence s
Twins(p, s) ==
    Cardinality({t \in 1..Len(pages[p].sentences) :
        pages[p].sentences[t] = pages[p].sentences[s]})

\* C1: after get_answers(), a sentence of the window has an Answer if and
\* only if every term of the tagged query, the causal term included, is
\* satisfied by it: verbatim by some regularized token, or by some sense pair
\* scoring at or above the threshold.
C1_AnswerIffAllTermsSatisfied ==
    pc = "done" =>
        \A p \in 1..Len(pages) : \A s \in 1..Len(pages[p].sentences) :
            AnswersFor(p, s) =
                IF AllSatisfied(pages[p].sentences[s]) THEN Twins(p, s) ELSE 0

\* a verbatim match at a threshold no pair reaches, next to a sentence that
\* is rejected for the causal term alone
C1_Witness ==
    /\ pc = "done"
    /\ lch = 400
    /\ Len(ir_query) >= 1
    /\ \E p \in 1..Len(pages) : \E s, t \in 1..Len(pages[p].sentences) :
          /\ AnswersFor(p, s) = 1
          /\ AnswersFor(p, t) = 0
          /\ \A i \in 1..Len(ir_query) :
                Satisfied(ir_query_tagged[1][i][1], ir_query_tagged[1][i][2],
                          pages[p].sentences[t], lch)

\* the coarse category a tagger label stands for
CoarseCategory(label) ==
    CASE startswith(label, "N") -> Some(NOUN)
      [] startswith(label, "V") -> Some(VERB)
      [] startswith(label, "J") -> Some(ADJ)
      [] startswith(label, "R") -> Some(ADV)
      [] OTHER -> None

\* C2: in the tagged query a token whose label maps to a known category
\* carries the senses of that category only; a token of unknown category
\* carries the full sense set.
C2_SensesFilteredByCategory ==
    ir_query_tagged # None =>
        \A i \in 1..Len(ir_query) :
            LET cat == CoarseCategory(TagOf(tagger, ir_query[i])) IN
            ir_query_tagged[1][i][2] =
                IF cat # None THEN synsets_pos(ir_query[i], cat[1])
                ELSE synsets(ir_query[i])

\* C3: the window is the ranked documents at the indices i with
\* start <= i < min(num_top, n), in rank order, and num_pages is n.
C3_WindowIsAbsoluteSlice ==
    constructed =>
        /\ num_pages = Len(index_ranked)
        /\ Len(pages) = Cardinality(WindowIndices)
        /\ \A k \in 1..Len(pages) :
              /\ start + k - 1 \in WindowIndices
              /\ pages[k].id = index_ranked[start + k][1]

\* three ranked documents, start 1, num_top 2: one document, not two
C3_Witness ==
    /\ pc = "ready"
    /\ Len(index_ranked) = 3
    /\ start = 1
    /\ num_top = 2
    /\ Len(pages) = 1

\* C4: a window that holds no ranked document ends the constructor in a
\* typed pagination error, and get_page is not called.
C4_TypedPaginationError ==
    (pc # "new" /\ WindowIndices = {}) =>
        (error = "PaginationError" /\ get_page_calls = 0)

\* the sense pairs related() goes through for a term and a token
Outcomes(syn, tok) ==
    {lch_similarity(SensePairs(syn, tok)[i][1], SensePairs(syn, tok)[i][2]).kind :
        i \in 1..Len(SensePairs(syn, tok))}

MatchEvents == {i \in 1..Len(log) : log[i].ev = "match"}

\* C5: a sense pair whose relatedness is not a usable score counts as not
\* related and nothing more: for the sentence just examined related() answers
\* as if the pair were absent, no error leaves get_answers(), and every
\* sentence gets its decision.
C5_FailedPairIsNotRelated ==
    /\ pc # "raised"
    /\ error # "Exception"
    /\ (Len(log) >= 1 /\ log[Len(log)].ev = "match") =>
          LET sentence == pages[log[Len(log)].p].sentences[log[Len(log)].s] IN
          \A i \in 1..Len(ir_query_tagged[1]) :
          \A tok \in Range(regularize(sentence)) :
              related(ir_query_tagged[1][i][2], tok, lch) =
                  IF SomePairRelated(ir_query_tagged[1][i][2], tok, lch)
                  THEN "True" ELSE "False"
    /\ pc = "done" =>
          \A p \in 1..Len(pages) : \A s \in 1..Len(pages[p].sentences) :
              \E i \in MatchEvents : log[i].p = p /\ log[i].s = s

\* a term related to a token through a later pair although an earlier pair
\* raised and another returned None
C5_Witness ==
    /\ pc = "done"
    /\ \E i \in 1..Len(ir_query_tagged[1]) :
       \E p \in 1..Len(pages) : \E s \in 1..Len(pages[p].sentences) :
       \E tok \in Range(regularize(pages[p].sentences[s])) :
          /\ tok # ir_query_tagged[1][i][1]
          /\ {"raise", "none"} \subseteq Outcomes(ir_query_tagged[1][i][2], tok)
          /\ lch_similarity(SensePairs(ir_query_tagged[1][i][2], tok)[1][1],
                            SensePairs(ir_query_tagged[1][i][2], tok)[1][2]).kind # "score"
          /\ related(ir_query_tagged[1][i][2], tok, lch) = "True"
          /\ AnswersFor(p, s) >= 1

\* C6: a later call of get_answers() returns a list equal to the one the
\* first call returned, and after a call the answers attribute is the list
\* returned.
C6_SecondCallReturnsSame ==
    /\ \A i \in 1..Len(returned) : returned[i] = returned[1]
    /\ pc = "done" => (Len(returned) = calls /\ answers = Some(returned[Len(returned)]))

C6_Witness ==
    /\ Len(returned) = 2
    /\ Len(returned[2]) >= 2

IsHit(e) == e.ev = "match" /\ e.hit

\* the sentences that matched, in the order they were examined
Hits == SelectSeq(log, IsHit)

\* C7: the answers are in rank order of their documents, then in sentence
\* order; every sentence is examined once and every matching sentence gives
\* one Answer with its document and its tokens joined by blanks.
C7_RankThenSentenceOrder ==
    pc = "done" =>
        /\ Len(answers[1]) = Len(Hits)
        /\ \A k \in 1..Len(Hits) :
              answers[1][k] = [page |-> pages[Hits[k].p].id,
                               text |-> Join(pages[Hits[k].p].sentences[Hits[k].s])]
        /\ \A k, l \in 1..Len(Hits) :
              k < l => \/ Hits[k].p < Hits[l].p
                       \/ (Hits[k].p = Hits[l].p /\ Hits[k].s < Hits[l].s)
        /\ \A p \in 1..Len(pages) : \A s \in 1..Len(pages[p].sentences) :
              Cardinality({i \in MatchEvents : log[i].p = p /\ log[i].s = s}) = 1

\* two answers of one document followed by an answer of a lower document
C7_Witness ==
    /\ pc = "done"
    /\ \E k, l, m \in 1..Len(answers[1]) :
          /\ k < l /\ l < m
          /\ answers[1][k].page = answers[1][l].page
          /\ answers[1][l].page # answers[1][m].page
          /\ answers[1][k].text # answers[1][l].text

\* C8: the tagged query has one entry per regularized query token, in
\* order, and then the entry ('cause', [cause.v.01]).
C8_TaggedQueryEndsWithCause ==
    ir_query_tagged # None =>
        LET t == ir_query_tagged[1] IN
        /\ Len(t) = Len(ir_query) + 1
        /\ \A i \in 1..Len(ir_query) : t[i][1] = ir_query[i]
        /\ t[Len(t)] = <<"cause", <<[lemma |-> "cause", pos |-> "v"]>> >>
        /\ ir_query = <<>> => t = << <<"cause", <<[lemma |-> "cause", pos |-> "v"]>> >> >>

C8_Witness ==
    /\ ir_query_tagged # None
    /\ Len(ir_query) = 2
    /\ Len(Tokenize(query)) = 2
    /\ tagger = "lexical"

\* C9: the i-th document of the window is the document of ranked entry
\* start+i and carries that entry's score; the index is asked once for the
\* ranking and once for the documents, however often get_answers() runs.
C9_ScoresFollowRanking ==
    /\ constructed =>
          /\ \A i \in 1..Len(pages) :
                /\ pages[i].id = index_ranked[start + i][1]
                /\ pages[i].cosine_sim = Some(index_ranked[start + i][2])
          /\ get_page_calls = 1
    /\ pc # "new" => ranked_calls = 1

C9_Witness ==
    /\ pc = "done"
    /\ calls = 2
    /\ start >= 1
    /\ Len(pages) >= 2

\* C10: in a call the tagged query is computed first; the pages are taken
\* in rank order, each preprocessed and then segmented; no sentence is
\* matched before every page of the window has been segmented.
C10_StagesInOrder ==
    /\ \A i \in 1..Len(log) :
          /\ (log[i].ev = "tag") <=> (i = 1)
          /\ log[i].ev = "pre" =>
                \A q \in 1..(log[i].p - 1) :
                    \E j \in 1..(i - 1) : log[j].ev = "seg" /\ log[j].p = q
          /\ log[i].ev = "seg" =>
                /\ log[i - 1].ev = "pre"
                /\ log[i - 1].p = log[i].p
          /\ log[i].ev = "match" =>
                \A q \in 1..Len(pages) :
                    \E j \in 1..(i - 1) : log[j].ev = "seg" /\ log[j].p = q
    /\ pc = "extract" =>
          /\ ir_query_tagged # None
          /\ Len(log) = 1 + 2 * Len(pages) + Cardinality(MatchEvents)

C10_Witness ==
    /\ pc = "extract"
    /\ calls = 2
    /\ Len(pages) >= 2
    /\ MatchEvents # {}

====
